---- MODULE Spec2Model ----
(***************************************************************************)
(* Model of src/app/main.go: a TCP endpoint that reads length-prefixed     *)
(* frames, decodes a Kafka request header in one of two encodings and      *)
(* answers every decoded request with a fixed ApiVersions response.        *)
(*                                                                         *)
(* Bytes are the integers 0..255, byte strings are sequences of bytes.     *)
(* Go's int and uint64 are 64 bits wide.  A 64-bit word is kept as four    *)
(* limbs, least significant first: three limbs of 21 bits (three of the    *)
(* 7-bit groups binary.Uvarint reads) and bit 63 alone.  A word read as a  *)
(* Go int is negative exactly when bit 63 is set.                          *)
(***************************************************************************)
EXTENDS Integers, Sequences, FiniteSets, TLC

\* ------------------------------------------------------------ constants
apiKeyApiVersions == 18
maxSupportedAPIVer == 4
errNone == 0
errUnsupportedVer == 35
\* encoding/binary.MaxVarintLen64, the longest varint binary.Uvarint accepts
MaxVarintLen64 == 10
\* the sanity cap on a frame's declared size
maxFrameSize == 10 * 1024 * 1024

\* ------------------------------------------------------------ bounds
\* Most iterations of skipTagged's loop the model follows before it reports
\* the worker as still looping.
MaxIter == 6
\* Most requests a client puts on one connection.
MaxFrames == 2

\* ------------------------------------------------------------ 64-bit words
\* The one element of a singleton set.  { e(v) : v \in {x} } and
\* \E v \in {x} : P(v) evaluate x once and name its value v.
The(S) == CHOOSE v \in S : TRUE

\* A limb holds three of Uvarint's 7-bit groups.
LimbBase == 128 * 128 * 128

\* The word of an integer n of TLC's range (an int32), two's complement.
FromInt(n) ==
  << n % LimbBase, (n \div LimbBase) % LimbBase,
     IF n < 0 THEN LimbBase - 1 ELSE 0, IF n < 0 THEN 1 ELSE 0 >>

Zero64 == FromInt(0)

\* Wrapping 64-bit addition (Go's + on int and on uint64): limb by limb with
\* carry, the carry out of bit 63 dropped.
Add64(x, y) ==
  The({ The({ The({ << s1 % LimbBase, s2 % LimbBase, s3 % LimbBase,
                       (xv[4] + yv[4] + s3 \div LimbBase) % 2 >>
                    : s3 \in {xv[3] + yv[3] + s2 \div LimbBase} })
              : s2 \in {xv[2] + yv[2] + s1 \div LimbBase} })
        : xv \in {x}, yv \in {y}, s1 \in {x[1] + y[1]} })

\* The word read as a Go int is negative.
IsNeg(x) == x[4] = 1

\* x < y, both read as uint64.
ULess(x, y) ==
  \E xv \in {x}, yv \in {y} :
    IF xv[4] # yv[4] THEN xv[4] < yv[4]
    ELSE IF xv[3] # yv[3] THEN xv[3] < yv[3]
    ELSE IF xv[2] # yv[2] THEN xv[2] < yv[2]
    ELSE xv[1] < yv[1]

\* x < y, both read as int (two's complement order).
SLess(x, y) ==
  \E xv \in {x}, yv \in {y} :
    IF IsNeg(xv) # IsNeg(yv) THEN IsNeg(xv) ELSE ULess(xv, yv)

\* The integer of a word known to lie in 0 .. 2^31-1.
ToInt(x) == The({ xv[1] + LimbBase * xv[2] : xv \in {x} })

\* 0 <= pos <= len(buf): pos is a legal slice bound of buf.
InBuf(buf, pos) ==
  \E p \in {pos} : ~IsNeg(p) /\ ~SLess(FromInt(Len(buf)), p)

\* ------------------------------------------------------------ fixed-width integers
\* int16(binary.BigEndian.Uint16(..)): the 16 bits reinterpreted as signed.
Int16BE(hi, lo) ==
  IF hi * 256 + lo >= 32768 THEN hi * 256 + lo - 65536 ELSE hi * 256 + lo

\* int32(binary.BigEndian.Uint32(..)): the 32 bits reinterpreted as signed.
Int32BE(b0, b1, b2, b3) ==
  (IF b0 >= 128 THEN b0 - 256 ELSE b0) * 16777216 + b1 * 65536 + b2 * 256 + b3

\* binary.BigEndian.PutUint32(.., uint32(v)) for an int32 v: its four bytes.
PutUint32(v) ==
  << (v \div 16777216) % 256, (v \div 65536) % 256, (v \div 256) % 256, v % 256 >>

\* ------------------------------------------------------------ cursor
\* Results of a cursor read: err is "nil", "eof" (io.ErrUnexpectedEOF) or
\* "panic" (a slice bound out of range, which aborts the process); off is the
\* cursor's offset afterwards; v the value read.
Res(e, pos, val) == [err |-> e, off |-> pos, v |-> val]

\* c.need(n) fails: c.off+n > len(c.b), in wrapping int arithmetic.
need(buf, pos, n) == SLess(FromInt(Len(buf)), Add64(pos, n))

\* A faulty variant: the two bytes are read as an unsigned number.
i16_unsigned(buf, pos) ==
  IF need(buf, pos, FromInt(2)) THEN Res("eof", pos, 0)
  ELSE IF ~InBuf(buf, pos) THEN Res("panic", pos, 0)
  ELSE The({ Res("nil", Add64(pos, FromInt(2)), buf[k + 1] * 256 + buf[k + 2])
             : k \in {ToInt(pos)} })

i16(buf, pos) ==
  IF need(buf, pos, FromInt(2)) THEN Res("eof", pos, 0)
  ELSE IF ~InBuf(buf, pos) THEN Res("panic", pos, 0)
  ELSE The({ Res("nil", Add64(pos, FromInt(2)), Int16BE(buf[k + 1], buf[k + 2]))
             : k \in {ToInt(pos)} })

i32(buf, pos) ==
  IF need(buf, pos, FromInt(4)) THEN Res("eof", pos, 0)
  ELSE IF ~InBuf(buf, pos) THEN Res("panic", pos, 0)
  ELSE The({ Res("nil", Add64(pos, FromInt(4)),
                 Int32BE(buf[k + 1], buf[k + 2], buf[k + 3], buf[k + 4]))
             : k \in {ToInt(pos)} })

\* A faulty variant: a negative length is an error instead of the null string.
str16_nullFails(buf, pos) ==
  The({ IF l.err # "nil" THEN Res(l.err, l.off, << >>)
        ELSE IF l.v < 0 THEN Res("eof", l.off, << >>)
        ELSE IF need(buf, l.off, FromInt(l.v)) THEN Res("eof", l.off, << >>)
        ELSE Res("nil", Add64(l.off, FromInt(l.v)),
                 SubSeq(buf, ToInt(l.off) + 1, ToInt(l.off) + l.v))
      : l \in {i16(buf, pos)} })

str16(buf, pos) ==
  The({ IF l.err # "nil" THEN Res(l.err, l.off, << >>)
        ELSE IF l.v < 0 THEN Res("nil", l.off, << >>)
        ELSE IF need(buf, l.off, FromInt(l.v)) THEN Res("eof", l.off, << >>)
        ELSE Res("nil", Add64(l.off, FromInt(l.v)),
                 SubSeq(buf, ToInt(l.off) + 1, ToInt(l.off) + l.v))
      : l \in {i16(buf, pos)} })

\* x |= uint64(g) << (7*k) for a 7-bit g whose bits of x are still zero:
\* group k of limb k/3, or bit 63, where only g's lowest bit stays inside
\* the word.
OrGroup(x, k, g) ==
  IF k = MaxVarintLen64 - 1 THEN [x EXCEPT ![4] = g % 2]
  ELSE [x EXCEPT ![k \div 3 + 1] = @ + g * (IF k % 3 = 0 THEN 1
                                           ELSE IF k % 3 = 1 THEN 128 ELSE 128 * 128)]

\* encoding/binary.Uvarint's loop from byte k (0-based) on: the value and the
\* count n of bytes read; n = 0: buffer too small, n < 0: overflow.
RECURSIVE UvarintLoop(_, _, _)
UvarintLoop(buf, k, x) ==
  IF k >= Len(buf) THEN [x |-> Zero64, n |-> 0]
  ELSE IF k = MaxVarintLen64 THEN [x |-> Zero64, n |-> -(k + 1)]
  ELSE IF buf[k + 1] < 128
       THEN IF k = MaxVarintLen64 - 1 /\ buf[k + 1] > 1
            THEN [x |-> Zero64, n |-> -(k + 1)]
            ELSE [x |-> OrGroup(x, k, buf[k + 1]), n |-> k + 1]
       ELSE The({ UvarintLoop(buf, k1, x1)
                  : k1 \in {k + 1}, x1 \in {OrGroup(x, k, buf[k + 1] % 128)} })

Uvarint(buf) == UvarintLoop(buf, 0, Zero64)

\* A faulty variant: a varint that is cut short or missing reads as 0.
uvarint_emptyIsZero(buf, pos) ==
  IF ~InBuf(buf, pos) THEN Res("panic", pos, Zero64)
  ELSE The({ IF r.n <= 0 THEN Res("nil", pos, Zero64)
             ELSE Res("nil", Add64(pos, FromInt(r.n)), r.x)
           : r \in {Uvarint(SubSeq(buf, ToInt(pos) + 1, Len(buf)))} })

uvarint(buf, pos) ==
  IF ~InBuf(buf, pos) THEN Res("panic", pos, Zero64)
  ELSE The({ IF r.n <= 0 THEN Res("eof", pos, Zero64)
             ELSE Res("nil", Add64(pos, FromInt(r.n)), r.x)
           : r \in {Uvarint(SubSeq(buf, ToInt(pos) + 1, Len(buf)))} })

\* compactNullableString once the length varint n1 is read: n := int(n1-1),
\* c.need(n), string(c.b[c.off : c.off+n]).
compactBody(buf, n1) ==
  The({ IF need(buf, n1.off, n) THEN Res("eof", n1.off, << >>)
        ELSE The({ IF ~InBuf(buf, n1.off) \/ ~InBuf(buf, hi) \/ SLess(hi, n1.off)
                   THEN Res("panic", n1.off, << >>)
                   ELSE Res("nil", hi, SubSeq(buf, ToInt(n1.off) + 1, ToInt(hi)))
                 : hi \in {Add64(n1.off, n)} })
      : n \in {Add64(n1.v, FromInt(-1))} })

compactNullableString(buf, pos) ==
  The({ IF n1.err # "nil" THEN Res(n1.err, n1.off, << >>)
        ELSE IF n1.v = Zero64 THEN Res("nil", n1.off, << >>)
        ELSE compactBody(buf, n1)
      : n1 \in {uvarint(buf, pos)} })

\* One pass of skipTagged's loop body from offset pos: tag id, size, skip.
tagEntry(buf, pos) ==
  The({ IF tag.err # "nil" THEN Res(tag.err, tag.off, Zero64)
        ELSE The({ IF sz.err # "nil" THEN Res(sz.err, sz.off, Zero64)
                   ELSE IF need(buf, sz.off, sz.v) THEN Res("eof", sz.off, sz.v)
                   ELSE Res("nil", Add64(sz.off, sz.v), sz.v)
                 : sz \in {uvarint(buf, tag.off)} })
      : tag \in {uvarint(buf, pos)} })

\* skipTagged's loop with k passes done, count declared; "spin" when MaxIter
\* passes did not end it.
RECURSIVE tagLoop(_, _, _, _)
tagLoop(buf, pos, k, count) ==
  IF ~ULess(FromInt(k), count) THEN Res("nil", pos, k)
  ELSE IF k >= MaxIter THEN Res("spin", pos, k)
  ELSE The({ IF e.err # "nil" THEN Res(e.err, e.off, k)
             ELSE The({ tagLoop(buf, e.off, k1, count) : k1 \in {k + 1} })
           : e \in {tagEntry(buf, pos)} })

skipTagged(buf, pos) ==
  The({ IF count.err # "nil" THEN Res(count.err, count.off, 0)
        ELSE tagLoop(buf, count.off, 0, count.v)
      : count \in {uvarint(buf, pos)} })

\* ------------------------------------------------------------ header decoder
Hdr(isOk, e, k, ver, corr, cid, pos) ==
  [ok |-> isOk, err |-> e, apiKey |-> k, apiVer |-> ver, corrID |-> corr,
   clientID |-> cid, off |-> pos]

\* The flexible attempt, made from the saved offset after a failed legacy read.
parseFlexible(buf, k, ver, corr, saved) ==
  The({ IF s.err # "nil" THEN Hdr(FALSE, s.err, k, ver, corr, s.v, s.off)
        ELSE The({ IF t.err # "nil" THEN Hdr(FALSE, t.err, k, ver, corr, s.v, t.off)
                   ELSE Hdr(TRUE, "nil", k, ver, corr, s.v, t.off)
                 : t \in {skipTagged(buf, s.off)} })
      : s \in {compactNullableString(buf, saved)} })

\* parseHeader once apiKey, apiVer and corrID are read: the legacy attempt,
\* then the flexible one from the same offset.
parseClientID(buf, k, ver, corr) ==
  The({ IF leg.err = "nil" THEN Hdr(TRUE, "nil", k.v, ver.v, corr.v, leg.v, leg.off)
        ELSE IF leg.err = "panic"
             THEN Hdr(FALSE, "panic", k.v, ver.v, corr.v, leg.v, leg.off)
        ELSE parseFlexible(buf, k.v, ver.v, corr.v, corr.off)
      : leg \in {str16(buf, corr.off)} })

parseHeader(buf) ==
  The({ IF k.err # "nil" THEN Hdr(FALSE, k.err, k.v, 0, 0, << >>, k.off)
        ELSE The({ IF ver.err # "nil"
                   THEN Hdr(FALSE, ver.err, k.v, ver.v, 0, << >>, ver.off)
                   ELSE The({ IF corr.err # "nil"
                              THEN Hdr(FALSE, corr.err, k.v, ver.v, corr.v, << >>,
                                       corr.off)
                              ELSE parseClientID(buf, k, ver, corr)
                            : corr \in {i32(buf, ver.off)} })
                 : ver \in {i16(buf, k.off)} })
      : k \in {i16(buf, Zero64)} })

\* ------------------------------------------------------------ version policy
\* handleConn, step 4: the error code for the decoded (apiKey, apiVer).
\* A faulty variant: the version range is applied to every apiKey.
decideErrCode_anyKey(k, ver) ==
  IF ver > maxSupportedAPIVer \/ ver < 0 THEN errUnsupportedVer ELSE errNone

decideErrCode(k, ver) ==
  IF k = apiKeyApiVersions /\ (ver > maxSupportedAPIVer \/ ver < 0)
  THEN errUnsupportedVer ELSE errNone

\* ------------------------------------------------------------ response encoder
\* The body: error_code, compact array of one entry, throttle, tag buffer.
\* A faulty variant: the error code's high byte is left zero.
responseBody_lowByteOnly(code) ==
  << 0, code % 256 >>
  \o << 2 >>
  \o << 0, 18 >> \o << 0, 0 >> \o << 0, 4 >> \o << 0 >>
  \o PutUint32(0)
  \o << 0 >>

responseBody(errCode) ==
  << (errCode \div 256) % 256, errCode % 256 >>
  \o << 2 >>
  \o << 0, 18 >> \o << 0, 0 >> \o << 0, 4 >> \o << 0 >>
  \o PutUint32(0)
  \o << 0 >>

\* A faulty variant: the frame length counts the body alone.
buildApiVersionsResponse_lenOfBody(corr, code) ==
  PutUint32(Len(responseBody(code))) \o PutUint32(corr) \o responseBody(code)

buildApiVersionsResponse(corrID, errCode) ==
  LET body == responseBody(errCode)
  IN PutUint32(4 + Len(body)) \o PutUint32(corrID) \o body

\* ------------------------------------------------------------ state
\* One frame's way through steps 3-5 of handleConn, read by read:
\*   b, off            the cursor over the frame's payload
\*   pc                the statement parseHeader/handleConn is at
\*   apiKey .. ok      parseHeader's named results
\*   save, cnt, i      parseHeader's checkpoint, skipTagged's count and index
\*   errCode, resp     the decided error code and the response built
VARIABLES b, off, pc, apiKey, apiVer, corrID, clientID, ok, save, cnt, i,
          errCode, resp

\* The server: the process and one handleConn worker per connection:
\*   running           the process has not been aborted by a panic
\*   inb, rd           the bytes the client sends before it closes, and how
\*                     many of them the worker has taken
\*   hpc               where the worker is: "idle" (not accepted), "readLen",
\*                     "readPayload", "handle", "spinning", "closed"
\*   frameSize, payload  the declared size and the payload of the frame at hand
\*   out, torn         the response frames written whole, and the bytes of a
\*                     write that failed part-way
\*   log               the worker's last line on stderr
\*   reqs              history: the payloads read whole so far
VARIABLES running, inb, rd, hpc, frameSize, payload, out, torn, log, reqs

frameVars == << b, off, pc, apiKey, apiVer, corrID, clientID, ok, save, cnt, i,
                errCode, resp >>

connVars == << running, inb, rd, hpc, frameSize, payload, out, torn, log, reqs >>

vars == << frameVars, connVars >>

Conns == {"A", "B"}

\* The state of the variables a specification does not use.
FrameIdle ==
  /\ b = << >> /\ off = Zero64 /\ pc = "idle"
  /\ apiKey = 0 /\ apiVer = 0 /\ corrID = 0 /\ clientID = << >> /\ ok = FALSE
  /\ save = Zero64 /\ cnt = Zero64 /\ i = 0
  /\ errCode = errNone /\ resp = << >>

ConnIdle ==
  /\ running = TRUE
  /\ inb = [c \in Conns |-> << >>]
  /\ rd = [c \in Conns |-> 0]
  /\ hpc = [c \in Conns |-> "idle"]
  /\ frameSize = [c \in Conns |-> 0]
  /\ payload = [c \in Conns |-> << >>]
  /\ out = [c \in Conns |-> << >>]
  /\ torn = [c \in Conns |-> << >>]
  /\ log = [c \in Conns |-> ""]
  /\ reqs = [c \in Conns |-> << >>]

\* ------------------------------------------------------------ inputs
\* The request header fields the inputs take.
ApiKeys == {18, 17, 0, -1}
ApiVers == {-32768, -1, 0, 4, 5, 32767}
CorrIDs == {7, -2}

\* An int16 as its two big-endian bytes.
Bytes16(v) == << (v \div 256) % 256, v % 256 >>

\* The eight encoding-invariant bytes of a request header.
HeaderBytes(k, ver, corr) == Bytes16(k) \o Bytes16(ver) \o PutUint32(corr)

\* Ten-byte varints: 2^63, 2^64-1, 2^63-1 and 2^64-11.
V63 == << 128, 128, 128, 128, 128, 128, 128, 128, 128, 1 >>
VM1 == << 255, 255, 255, 255, 255, 255, 255, 255, 255, 1 >>
VMax == << 255, 255, 255, 255, 255, 255, 255, 255, 255, 0 >>
VBack == << 245, 255, 255, 255, 255, 255, 255, 255, 255, 1 >>
VOver == << 128, 128, 128, 128, 128, 128, 128, 128, 128, 128, 0 >>

\* What follows the first eight bytes: clientId in either encoding, whole,
\* truncated or hostile.
LegacyTails ==
  { << 255, 255 >>, << 0, 0 >>, << 128, 0 >>, << 0, 4, 116, 101, 115, 116 >>,
    << 0, 1, 0, 0 >>, << 0, 1, 97 >>, << 255, 255, 1, 0 >>, << 0, 2, 0, 0 >>,
    << 200, 1, 2 >> }

FlexTails ==
  { << >>, << 0 >>, << 1 >>, << 2 >>, << 127 >>, << 128 >>, << 255 >>,
    << 1, 0 >>, << 3, 97, 98, 0 >>,
    << 3, 97, 98, 1, 5, 2, 9, 9 >>, << 3, 97, 98, 2, 5, 0, 6, 1, 9 >>,
    << 3, 97 >>, << 1, 1, 0 >>, << 1, 1, 0, 3, 9 >>, << 0, 4, 116, 101 >>,
    << 1, 128, 1 >>,
    << 1, 1, 0 >> \o V63, << 1, 2, 0 >> \o V63, << 1, 1, 0 >> \o VM1,
    << 1, 2, 0 >> \o VM1, << 1, 1, 0 >> \o VMax, << 1, 2, 0 >> \o VMax,
    << 1, 3, 0 >> \o VBack, << 1, 127, 0 >> \o VBack,
    << 1 >> \o VOver, << 1, 1, 0 >> \o VOver,
    << 127 >> \o [j \in 1..126 |-> 97] \o << 0 >> }

Tails == LegacyTails \cup FlexTails

\* Payloads too short to hold apiKey, apiVersion and correlationId.
ShortPayloads ==
  { SubSeq(HeaderBytes(18, 4, 7), 1, n) : n \in 0..7 }

Payloads ==
  { HeaderBytes(k, ver, corr) \o t :
      k \in ApiKeys, ver \in ApiVers, corr \in CorrIDs, t \in Tails }
  \cup ShortPayloads

\* ------------------------------------------------------------ one frame, read by read
FrameInit ==
  /\ b \in Payloads
  /\ off = Zero64
  /\ pc = "apiKey"
  /\ apiKey = 0 /\ apiVer = 0 /\ corrID = 0 /\ clientID = << >> /\ ok = FALSE
  /\ save = Zero64 /\ cnt = Zero64 /\ i = 0
  /\ errCode = errNone /\ resp = << >>
  /\ ConnIdle

\* Where a read's error sends parseHeader: out of the process, or back to
\* handleConn with ok = false.
Failed(e) == IF e = "panic" THEN "panic" ELSE "malformed"

ReadApiKey ==
  /\ pc = "apiKey"
  /\ LET r == i16(b, off)
     IN /\ off' = r.off
        /\ apiKey' = r.v
        /\ pc' = IF r.err = "nil" THEN "apiVer" ELSE Failed(r.err)
  /\ UNCHANGED connVars
  /\ UNCHANGED << b, apiVer, corrID, clientID, ok, save, cnt, i, errCode, resp >>

ReadApiVer ==
  /\ pc = "apiVer"
  /\ LET r == i16(b, off)
     IN /\ off' = r.off
        /\ apiVer' = r.v
        /\ pc' = IF r.err = "nil" THEN "corrID" ELSE Failed(r.err)
  /\ UNCHANGED connVars
  /\ UNCHANGED << b, apiKey, corrID, clientID, ok, save, cnt, i, errCode, resp >>

ReadCorrID ==
  /\ pc = "corrID"
  /\ LET r == i32(b, off)
     IN /\ off' = r.off
        /\ corrID' = r.v
        /\ pc' = IF r.err = "nil" THEN "legacy" ELSE Failed(r.err)
  /\ UNCHANGED connVars
  /\ UNCHANGED << b, apiKey, apiVer, clientID, ok, save, cnt, i, errCode, resp >>

\* save := c.off; clientID, err = c.str16()
TryLegacy ==
  /\ pc = "legacy"
  /\ save' = off
  /\ LET r == str16(b, off)
     IN /\ off' = r.off
        /\ clientID' = r.v
        /\ ok' = (r.err = "nil")
        /\ pc' = IF r.err = "nil" THEN "decide"
                 ELSE IF r.err = "panic" THEN "panic" ELSE "restore"
  /\ UNCHANGED connVars
  /\ UNCHANGED << b, apiKey, apiVer, corrID, cnt, i, errCode, resp >>

\* A faulty variant: the flexible attempt starts where the legacy one stopped.
Restore_keepsOffset ==
  /\ pc = "restore"
  /\ off' = off
  /\ pc' = "compact"
  /\ UNCHANGED connVars
  /\ UNCHANGED << b, apiKey, apiVer, corrID, clientID, ok, save, cnt, i,
                  errCode, resp >>

\* c.off = save
Restore ==
  /\ pc = "restore"
  /\ off' = save
  /\ pc' = "compact"
  /\ UNCHANGED connVars
  /\ UNCHANGED << b, apiKey, apiVer, corrID, clientID, ok, save, cnt, i,
                  errCode, resp >>

ReadCompact ==
  /\ pc = "compact"
  /\ LET r == compactNullableString(b, off)
     IN /\ off' = r.off
        /\ clientID' = r.v
        /\ pc' = IF r.err = "nil" THEN "tags" ELSE Failed(r.err)
  /\ UNCHANGED connVars
  /\ UNCHANGED << b, apiKey, apiVer, corrID, ok, save, cnt, i, errCode, resp >>

\* skipTagged: cnt, err := c.uvarint()
ReadTagCount ==
  /\ pc = "tags"
  /\ LET r == uvarint(b, off)
     IN /\ off' = r.off
        /\ cnt' = r.v
        /\ i' = 0
        /\ pc' = IF r.err = "nil" THEN "entry" ELSE Failed(r.err)
  /\ UNCHANGED connVars
  /\ UNCHANGED << b, apiKey, apiVer, corrID, clientID, ok, save, errCode, resp >>

\* skipTagged: one pass of the loop, taken while i < cnt.
SkipEntry ==
  /\ pc = "entry"
  /\ ULess(FromInt(i), cnt)
  /\ i < MaxIter
  /\ LET r == tagEntry(b, off)
     IN /\ off' = r.off
        /\ i' = IF r.err = "nil" THEN i + 1 ELSE i
        /\ pc' = IF r.err = "nil" THEN "entry" ELSE Failed(r.err)
  /\ UNCHANGED connVars
  /\ UNCHANGED << b, apiKey, apiVer, corrID, clientID, ok, save, cnt, errCode, resp >>

\* skipTagged returns nil once i reaches cnt; parseHeader returns ok = true.
EndTagged ==
  /\ pc = "entry"
  /\ ~ULess(FromInt(i), cnt)
  /\ ok' = TRUE
  /\ pc' = "decide"
  /\ UNCHANGED connVars
  /\ UNCHANGED << b, off, apiKey, apiVer, corrID, clientID, save, cnt, i,
                  errCode, resp >>

\* handleConn, step 4
Decide ==
  /\ pc = "decide"
  /\ errCode' = decideErrCode(apiKey, apiVer)
  /\ pc' = "build"
  /\ UNCHANGED connVars
  /\ UNCHANGED << b, off, apiKey, apiVer, corrID, clientID, ok, save, cnt, i, resp >>

\* A faulty variant: the response advertises the request's apiKey.
Build_echoesApiKey ==
  /\ pc = "build"
  /\ resp' = [buildApiVersionsResponse(corrID, errCode)
                EXCEPT ![12] = (apiKey \div 256) % 256, ![13] = apiKey % 256]
  /\ pc' = "written"
  /\ UNCHANGED connVars
  /\ UNCHANGED << b, off, apiKey, apiVer, corrID, clientID, ok, save, cnt, i, errCode >>

\* handleConn, step 5
Build ==
  /\ pc = "build"
  /\ resp' = buildApiVersionsResponse(corrID, errCode)
  /\ pc' = "written"
  /\ UNCHANGED connVars
  /\ UNCHANGED << b, off, apiKey, apiVer, corrID, clientID, ok, save, cnt, i, errCode >>

FrameNext ==
  \/ ReadApiKey \/ ReadApiVer \/ ReadCorrID \/ TryLegacy \/ Restore
  \/ ReadCompact \/ ReadTagCount \/ SkipEntry \/ EndTagged \/ Decide \/ Build

SpecFrame == FrameInit /\ [][FrameNext]_vars

\* The read-by-read run ends as parseHeader, taken as one call, says.
StepwiseAgrees ==
  LET h == parseHeader(b)
  IN /\ pc \in {"decide", "build", "written"} =>
          /\ h.ok /\ ok
          /\ << h.apiKey, h.apiVer, h.corrID, h.clientID, h.off >>
               = << apiKey, apiVer, corrID, clientID, off >>
     /\ pc = "malformed" => ~h.ok /\ h.err = "eof"
     /\ pc = "panic" => ~h.ok /\ h.err = "panic"
     /\ (h.ok \/ h.err \in {"eof", "panic"}) =>
          ~(pc = "entry" /\ ULess(FromInt(i), cnt) /\ i >= MaxIter)

\* ------------------------------------------------------------ response encoder alone
\* buildApiVersionsResponse applied to arguments of the whole int32 and int16
\* ranges.
Int32Samples ==
  { -2147483647 - 1, -16777216, -65536, -256, -2, -1, 0, 1, 7, 127, 128, 255,
    256, 65535, 65536, 16777215, 16777216, 2147483647 }
Int16Samples == { -32768, -256, -1, 0, 1, 35, 255, 256, 32767 }

EncodeInit ==
  /\ corrID \in Int32Samples
  /\ errCode \in Int16Samples
  /\ pc = "build"
  /\ b = << >> /\ off = Zero64
  /\ apiKey = 0 /\ apiVer = 0 /\ clientID = << >> /\ ok = TRUE
  /\ save = Zero64 /\ cnt = Zero64 /\ i = 0
  /\ resp = << >>
  /\ ConnIdle

SpecEncode == EncodeInit /\ [][Build]_vars

\* ------------------------------------------------------------ compact string reader alone
\* compactNullableString applied to cursors over buffers that start with a
\* length varint of every size class: one byte, several bytes, cut short,
\* overlong, and the ten-byte values around 2^63 and 2^64.
CompactLengths ==
  { << 0 >>, << 1 >>, << 2 >>, << 3 >>, << 4 >>, << 127 >>, << 128 >>,
    << 128, 0 >>, << 128, 1 >>, << 255, 255, 255, 255, 7 >>,
    V63, << 129, 128, 128, 128, 128, 128, 128, 128, 128, 1 >>, VM1, VMax,
    VBack, VOver }

CompactContents ==
  { << >>, << 97 >>, << 97, 98 >>, << 97, 98, 99 >>,
    [j \in 1..126 |-> 97], [j \in 1..127 |-> 98] }

\* What lies in the buffer before the cursor's offset.
CompactPrefixes == { << >>, << 9, 9 >> }

CompactInit ==
  /\ \E pre \in CompactPrefixes, l \in CompactLengths, c \in CompactContents :
       /\ b = pre \o l \o c
       /\ off = FromInt(Len(pre))
  /\ pc = "compact"
  /\ apiKey = 0 /\ apiVer = 0 /\ corrID = 0 /\ clientID = << >> /\ ok = FALSE
  /\ save = Zero64 /\ cnt = Zero64 /\ i = 0
  /\ errCode = errNone /\ resp = << >>
  /\ ConnIdle

SpecCompact == CompactInit /\ [][ReadCompact]_vars

\* ------------------------------------------------------------ the server
\* A frame on the wire: the payload behind its 4-byte length.
Frame(p) == PutUint32(Len(p)) \o p

ExampleRequest == HeaderBytes(18, 4, 7) \o << 0, 4, 116, 101, 115, 116 >>
FlexibleRequest == HeaderBytes(17, 0, 258) \o << 3, 97, 98, 1, 5, 2, 9, 9 >>

\* What a hostile client may send as one item of its stream: whole frames,
\* good and malformed, bad length prefixes, and frames cut short.
Items ==
  { Frame(ExampleRequest),
    Frame(FlexibleRequest),
    Frame(HeaderBytes(18, 5, -2) \o << 255, 255 >>),
    Frame(SubSeq(ExampleRequest, 1, 5)),
    Frame(<< >>),
    Frame(HeaderBytes(18, 0, 1) \o << 1, 2, 0 >> \o V63),
    PutUint32(-1) \o << 0, 18 >>,
    PutUint32(maxFrameSize + 1) \o << 0, 18 >>,
    PutUint32(maxFrameSize) \o << 0, 18, 0 >>,
    << 0, 0 >>,
    PutUint32(14) \o << 0, 18, 0 >> }

RECURSIVE Flatten(_)
Flatten(ss) == IF ss = << >> THEN << >> ELSE Head(ss) \o Flatten(Tail(ss))

\* Every stream of at most MaxFrames items.
Streams ==
  UNION { { Flatten(ss) : ss \in [1..n -> Items] } : n \in 0..MaxFrames }

\* A well-behaved client's stream: two well-formed requests.
WellFormedStream == Frame(ExampleRequest) \o Frame(FlexibleRequest)

\* A hostile peer's connection may also fail under the worker; the
\* well-behaved client's does not.
Faults(c) == IF c = "A" THEN {FALSE, TRUE} ELSE {FALSE}

\* How much of a response a failed conn.Write may have sent.
TornLengths == {0, 8}

Init ==
  /\ FrameIdle
  /\ running = TRUE
  /\ inb \in [Conns -> Streams \cup {WellFormedStream}]
  /\ inb["B"] = WellFormedStream
  /\ rd = [c \in Conns |-> 0]
  /\ hpc = [c \in Conns |-> "idle"]
  /\ frameSize = [c \in Conns |-> 0]
  /\ payload = [c \in Conns |-> << >>]
  /\ out = [c \in Conns |-> << >>]
  /\ torn = [c \in Conns |-> << >>]
  /\ log = [c \in Conns |-> ""]
  /\ reqs = [c \in Conns |-> << >>]

\* main: l.Accept() returns the connection; go handleConn(conn).
Accept(c) ==
  /\ running
  /\ hpc[c] = "idle"
  /\ hpc' = [hpc EXCEPT ![c] = "readLen"]
  /\ UNCHANGED << running, inb, rd, frameSize, payload, out, torn, log, reqs >>
  /\ UNCHANGED frameVars

\* io.ReadFull(conn, buf) for a buf of n bytes when the stream still holds
\* avail bytes before its end: io.EOF only when it read nothing.
readFull(avail, n) ==
  IF avail >= n THEN "nil" ELSE IF avail = 0 THEN "EOF" ELSE "ErrUnexpectedEOF"

\* A faulty variant: the ceiling itself is rejected.
lengthOutcome_offByOne(res, n) ==
  IF res # "nil"
  THEN [next |-> "closed",
        msg |-> IF res \in {"EOF", "ErrUnexpectedEOF"} THEN "" ELSE "Read length error"]
  ELSE IF n < 0 THEN [next |-> "closed", msg |-> "Negative frame size"]
  ELSE IF n >= maxFrameSize THEN [next |-> "closed", msg |-> "Frame too large"]
  ELSE [next |-> "readPayload", msg |-> ""]

\* handleConn, step 1, after io.ReadFull(conn, lenBuf) returned res and, when
\* it returned nil, lenBuf read as the int32 n: where the worker goes and what
\* it prints.
lengthOutcome(res, n) ==
  IF res # "nil"
  THEN [next |-> "closed",
        msg |-> IF res \in {"EOF", "ErrUnexpectedEOF"} THEN "" ELSE "Read length error"]
  ELSE IF n < 0 THEN [next |-> "closed", msg |-> "Negative frame size"]
  ELSE IF n > maxFrameSize THEN [next |-> "closed", msg |-> "Frame too large"]
  ELSE [next |-> "readPayload", msg |-> ""]

\* A faulty variant: a failed payload read is logged and the loop goes on.
payloadOutcome_retry(res) ==
  IF res # "nil" THEN [next |-> "readLen", msg |-> "Read payload error"]
  ELSE [next |-> "handle", msg |-> ""]

\* handleConn, step 2, after io.ReadFull(conn, payload) returned res.
payloadOutcome(res) ==
  IF res # "nil" THEN [next |-> "closed", msg |-> "Read payload error"]
  ELSE [next |-> "handle", msg |-> ""]

\* A faulty variant: the ok result of parseHeader is not looked at.
headerOutcome_ignoresOk(p) ==
  The({ IF h.err \in {"panic", "spin"} THEN [kind |-> h.err, resp |-> << >>]
        ELSE [kind |-> "respond",
              resp |-> buildApiVersionsResponse(
                         h.corrID, decideErrCode(h.apiKey, h.apiVer))]
      : h \in {parseHeader(p)} })

\* handleConn, steps 3-5 up to the write, for the payload p: "panic" when
\* parseHeader panics, "spin" when its loop is not seen to end, "malformed"
\* when it returns ok = false, else "respond" with the frame to write.
headerOutcome(p) ==
  The({ IF h.err \in {"panic", "spin"} THEN [kind |-> h.err, resp |-> << >>]
        ELSE IF ~h.ok THEN [kind |-> "malformed", resp |-> << >>]
        ELSE [kind |-> "respond",
              resp |-> buildApiVersionsResponse(
                         h.corrID, decideErrCode(h.apiKey, h.apiVer))]
      : h \in {parseHeader(p)} })

\* A faulty variant: a malformed header skips the frame and the loop goes on.
malformedOutcome_continue == [next |-> "readLen", msg |-> "Malformed header; closing"]

\* handleConn, lines 168-172: parseHeader returned ok = false.
malformedOutcome == [next |-> "closed", msg |-> "Malformed header; closing"]

\* A faulty variant: after a failed write the worker reads the next frame.
writeOutcome_retry(failed) ==
  IF failed THEN [next |-> "readLen", msg |-> "Write error"]
  ELSE [next |-> "readLen", msg |-> ""]

\* handleConn, step 5, after conn.Write(resp) failed or not.
writeOutcome(failed) ==
  IF failed THEN [next |-> "closed", msg |-> "Write error"]
  ELSE [next |-> "readLen", msg |-> ""]

\* The worker moves on to pc value next, having printed msg ("": nothing).
\* "closed": it returned and the deferred conn.Close() ran.
Goto(c, o) ==
  /\ hpc' = [hpc EXCEPT ![c] = o.next]
  /\ log' = [log EXCEPT ![c] = IF o.msg = "" THEN @ ELSE o.msg]

\* handleConn, step 1: io.ReadFull(conn, lenBuf) and the frame-size checks.
\* A failed read has taken what the stream still held; a connection fault
\* strikes before any byte.
ReadLength(c) ==
  /\ running
  /\ hpc[c] = "readLen"
  /\ \E fault \in Faults(c) :
       LET avail == Len(inb[c]) - rd[c]
           res == IF fault THEN "fault" ELSE readFull(avail, 4)
           k == rd[c]
           n == IF res = "nil"
                THEN Int32BE(inb[c][k + 1], inb[c][k + 2], inb[c][k + 3], inb[c][k + 4])
                ELSE frameSize[c]
       IN /\ Goto(c, lengthOutcome(res, n))
          /\ frameSize' = [frameSize EXCEPT ![c] = n]
          /\ rd' = [rd EXCEPT ![c] = IF res = "nil" THEN k + 4
                                     ELSE IF fault THEN k ELSE Len(inb[c])]
  /\ UNCHANGED << running, inb, payload, out, torn, reqs >>
  /\ UNCHANGED frameVars

\* handleConn, step 2: payload := make([]byte, frameSize); io.ReadFull.
ReadPayload(c) ==
  /\ running
  /\ hpc[c] = "readPayload"
  /\ \E fault \in Faults(c) :
       LET avail == Len(inb[c]) - rd[c]
           res == IF fault THEN "fault" ELSE readFull(avail, frameSize[c])
           o == payloadOutcome(res)
           p == SubSeq(inb[c], rd[c] + 1, rd[c] + frameSize[c])
       IN /\ Goto(c, o)
          /\ rd' = [rd EXCEPT ![c] = IF res = "nil" THEN rd[c] + frameSize[c]
                                     ELSE IF fault THEN rd[c] ELSE Len(inb[c])]
          /\ IF o.next = "handle"
             THEN /\ payload' = [payload EXCEPT ![c] = p]
                  /\ reqs' = [reqs EXCEPT ![c] = Append(reqs[c], p)]
             ELSE UNCHANGED << payload, reqs >>
  /\ UNCHANGED << running, inb, frameSize, out, torn >>
  /\ UNCHANGED frameVars

\* handleConn, steps 3-5: parse the header, decide the error code, build the
\* response and write it.  A panic in the worker's goroutine runs the deferred
\* conn.Close() and then aborts the process: every worker stops.
Handle(c) ==
  /\ running
  /\ hpc[c] = "handle"
  /\ \E o \in {headerOutcome(payload[c])} :
       IF o.kind = "panic"
       THEN /\ running' = FALSE
            /\ Goto(c, [next |-> "closed", msg |-> "panic: runtime error"])
            /\ UNCHANGED << out, torn >>
       ELSE IF o.kind = "spin"
       THEN /\ Goto(c, [next |-> "spinning", msg |-> ""])
            /\ UNCHANGED << running, out, torn >>
       ELSE IF o.kind = "malformed"
       THEN /\ Goto(c, malformedOutcome)
            /\ UNCHANGED << running, out, torn >>
       ELSE \E fault \in Faults(c) :
              /\ Goto(c, writeOutcome(fault))
              /\ IF fault
                 THEN /\ \E n \in TornLengths :
                           torn' = [torn EXCEPT ![c] = SubSeq(o.resp, 1, n)]
                      /\ UNCHANGED out
                 ELSE /\ out' = [out EXCEPT ![c] = Append(out[c], o.resp)]
                      /\ UNCHANGED torn
              /\ UNCHANGED running
  /\ UNCHANGED << inb, rd, frameSize, payload, reqs >>
  /\ UNCHANGED frameVars

handleConn(c) == ReadLength(c) \/ ReadPayload(c) \/ Handle(c)

Next == \E c \in Conns : Accept(c) \/ handleConn(c)

Spec == Init /\ [][Next]_vars

\* ------------------------------------------------------------ properties
\* The bytes of the frames in ps as they lay on the wire.
RECURSIVE FramedLen(_)
FramedLen(ps) == IF ps = << >> THEN 0 ELSE 4 + Len(Head(ps)) + FramedLen(Tail(ps))

\* The request of the specification's example, byte by byte.
ExamplePayload == << 0, 18, 0, 4, 0, 0, 0, 7, 0, 4, 116, 101, 115, 116 >>

\* C1, as stated: the response to the example request is the 24 bytes
\* 00 00 00 13 00 00 00 07 00 00 02 00 12 00 00 00 04 00 00 00 00 00 00 00.
C1_ExampleResponseAsStated ==
  \A c \in Conns : \A k \in 1..Len(out[c]) :
    reqs[c][k] = ExamplePayload =>
      out[c][k] = << 0, 0, 0, 19, 0, 0, 0, 7, 0, 0, 2, 0, 18, 0, 0, 0, 4,
                     0, 0, 0, 0, 0, 0, 0 >>

\* C1, amended: the response handleConn writes to the example request is the
\* 23 bytes 00 00 00 13 00 00 00 07 00 00 02 00 12 00 00 00 04 00 00 00 00 00 00
\* (the stated bytes without the last 00), and its length field, 19, is the
\* number of bytes that follow it.
C1_ExampleResponse ==
  \A c \in Conns : \A k \in 1..Len(out[c]) :
    reqs[c][k] = ExamplePayload =>
      /\ out[c][k] = << 0, 0, 0, 19, 0, 0, 0, 7, 0, 0, 2, 0, 18, 0, 0, 0, 4,
                        0, 0, 0, 0, 0, 0 >>
      /\ Len(out[c][k]) - 4 = 19

\* A connection delivered the example frame alone, was answered and ended.
C1_Witness ==
  \E c \in Conns :
    /\ inb[c] = << 0, 0, 0, 14 >> \o ExamplePayload
    /\ hpc[c] = "closed" /\ log[c] = ""
    /\ Len(out[c]) = 1

\* C2: the error code in the first two body bytes of the response is 35
\* exactly when the request's apiKey is 18 and its apiVersion is negative or
\* above 4, and 0 for every other (apiKey, apiVersion).
C2_ErrorCodeByVersion ==
  pc = "written" =>
    LET k == Int16BE(b[1], b[2])
        ver == Int16BE(b[3], b[4])
    IN Int16BE(resp[9], resp[10]) =
         IF k = 18 /\ (ver < 0 \/ ver > 4) THEN 35 ELSE 0

\* Requests answered with 35, and a request for another apiKey with the same
\* unsupported version answered with 0.
C2_Witness ==
  /\ pc = "written"
  /\ \/ apiKey = 18 /\ apiVer = -32768 /\ resp[10] = 35
     \/ apiKey = 17 /\ apiVer = 5 /\ resp[10] = 0

\* C3: on every connection the responses are in request order, one per frame:
\* the k-th response carries the k-th frame's correlation id, responses never
\* outnumber the frames read, the worker is back at reading a length only
\* when every frame read has its response, and a frame read but not answered
\* is still being handled or has ended the connection.
C3_OneResponsePerFrameInOrder ==
  \A c \in Conns :
    /\ Len(out[c]) <= Len(reqs[c])
    /\ Len(reqs[c]) - Len(out[c]) <= 1
    /\ \A k \in 1..Len(out[c]) :
         /\ Len(reqs[c][k]) >= 8
         /\ SubSeq(out[c][k], 5, 8) = SubSeq(reqs[c][k], 5, 8)
    /\ hpc[c] \in {"readLen", "readPayload"} => Len(out[c]) = Len(reqs[c])
    /\ Len(reqs[c]) > Len(out[c]) => hpc[c] \in {"handle", "spinning", "closed"}

\* Two requests with different correlation ids were answered in order.
C3_Witness ==
  \E c \in Conns :
    /\ Len(out[c]) = 2
    /\ SubSeq(out[c][1], 5, 8) # SubSeq(out[c][2], 5, 8)
    /\ hpc[c] = "readLen"

\* C4, as stated: a connection's failures stay its own.  Whatever the other
\* connection sent, a worker serving the well-formed stream that still has a
\* frame to read or to answer finds the process running, so it goes on to
\* read and answer.
C4_FailuresStayLocal ==
  \A c \in Conns :
    (inb[c] = WellFormedStream /\ hpc[c] \in {"readLen", "readPayload", "handle"})
      => (running /\ ENABLED handleConn(c))

\* The header of payload p decodes in neither encoding: parseHeader returns
\* ok = false, or does not return.
Undecodable(p) ==
  \E h \in {parseHeader(p)} : ~h.ok /\ h.err \in {"eof", "panic"}

\* C5: a frame whose header decodes in neither encoding (a payload below
\* eight bytes included) is the last one its connection reads: once the worker
\* has handled it, no byte of a response to it was written, whole or in part,
\* the connection is closed and nothing behind the frame was taken from the
\* stream.
C5_MalformedClosesSilently ==
  \A c \in Conns : \A k \in 1..Len(reqs[c]) :
    (Undecodable(reqs[c][k]) /\ ~(k = Len(reqs[c]) /\ hpc[c] = "handle")) =>
      /\ k = Len(reqs[c])
      /\ Len(out[c]) = k - 1
      /\ torn[c] = << >>
      /\ hpc[c] = "closed"
      /\ rd[c] = FramedLen(reqs[c])

\* A connection answered its first frame and was closed on its second, a
\* payload too short for the fixed header fields, with the stream read up to
\* the end of that frame.
C5_Witness ==
  \E c \in Conns :
    /\ hpc[c] = "closed"
    /\ log[c] = "Malformed header; closing"
    /\ Len(reqs[c]) = 2 /\ Len(out[c]) = 1
    /\ Len(reqs[c][2]) < 8
    /\ rd[c] = Len(inb[c])

\* The int32 in the four bytes of stream s that end at position r.
PrefixAt(s, r) == Int32BE(s[r - 3], s[r - 2], s[r - 1], s[r])

\* C6: a length prefix read as a signed big-endian int32 that is negative or
\* above 10*1024*1024 closes the connection with no payload byte taken from
\* the stream, no payload kept and no response written; a prefix in
\* 0 .. 10*1024*1024 sends the worker on to read the payload, and the payload
\* it hands to the decoder is exactly that many bytes, the ones behind the
\* prefix.
C6_LengthPrefixChecked ==
  \A c \in Conns :
    /\ hpc[c] = "readPayload" =>
         /\ rd[c] = FramedLen(reqs[c]) + 4
         /\ frameSize[c] = PrefixAt(inb[c], rd[c])
         /\ frameSize[c] >= 0 /\ frameSize[c] <= 10 * 1024 * 1024
    /\ log[c] \in {"Negative frame size", "Frame too large"} =>
         /\ hpc[c] = "closed"
         /\ rd[c] = FramedLen(reqs[c]) + 4
         /\ frameSize[c] = PrefixAt(inb[c], rd[c])
         /\ frameSize[c] < 0 \/ frameSize[c] > 10 * 1024 * 1024
         /\ Len(out[c]) = Len(reqs[c])
         /\ torn[c] = << >>
    /\ (rd[c] = FramedLen(reqs[c]) + 4 /\ hpc[c] # "readLen") =>
         IF PrefixAt(inb[c], rd[c]) < 0
         THEN hpc[c] = "closed" /\ log[c] = "Negative frame size"
         ELSE IF PrefixAt(inb[c], rd[c]) > 10 * 1024 * 1024
         THEN hpc[c] = "closed" /\ log[c] = "Frame too large"
         ELSE \/ hpc[c] = "readPayload"
              \/ hpc[c] = "closed" /\ log[c] = "Read payload error"
    /\ hpc[c] = "handle" =>
         /\ Len(payload[c]) = frameSize[c]
         /\ rd[c] = FramedLen(reqs[c])
         /\ payload[c] = SubSeq(inb[c], rd[c] - frameSize[c] + 1, rd[c])
         /\ payload[c] = reqs[c][Len(reqs[c])]

\* A prefix of exactly 10 MiB was accepted: the worker is about to read the
\* payload.
C6_Witness ==
  \E c \in Conns :
    /\ hpc[c] = "readPayload"
    /\ frameSize[c] = 10 * 1024 * 1024

\* C7: when the stream ends inside the frame at hand, with fewer than four
\* bytes left for the length or fewer than the declared bytes left for the
\* payload, the worker's step closes the connection and writes nothing,
\* whole or in part; the responses written before stay as they are, and a
\* closed connection stays closed with its responses unchanged.
C7_TruncatedFrameEndsWorker ==
  [][ \A c \in Conns :
        /\ ( /\ \/ hpc[c] = "readLen" /\ Len(inb[c]) - rd[c] < 4
                \/ hpc[c] = "readPayload" /\ Len(inb[c]) - rd[c] < frameSize[c]
             /\ hpc'[c] # hpc[c] )
           => /\ hpc'[c] = "closed"
              /\ out'[c] = out[c]
              /\ torn'[c] = torn[c]
              /\ reqs'[c] = reqs[c]
        /\ hpc[c] = "closed"
           => hpc'[c] = "closed" /\ out'[c] = out[c] /\ torn'[c] = torn[c] ]_vars

\* A stream that ended inside its second frame's payload: the first frame's
\* response is the only one, and the worker took the stream to its end.
C7_Witness ==
  \E c \in Conns :
    /\ hpc[c] = "closed"
    /\ log[c] = "Read payload error"
    /\ Len(out[c]) = 1 /\ Len(reqs[c]) = 1
    /\ rd[c] = Len(inb[c])
    /\ rd[c] > FramedLen(reqs[c]) + 4

\* C8: for every int32 correlationId and int16 errorCode the frame
\* buildApiVersionsResponse returns starts with the big-endian count of the
\* bytes behind the first four, then has correlationId as a signed big-endian
\* int32, then errorCode as a signed big-endian int16, then the fixed bytes
\* 02, 00 12, 00 00, 00 04, 00, 00 00 00 00, 00.
C8_ResponseLayout ==
  pc = "written" =>
    /\ Len(resp) = 23
    /\ Int32BE(resp[1], resp[2], resp[3], resp[4]) = Len(resp) - 4
    /\ Int32BE(resp[5], resp[6], resp[7], resp[8]) = corrID
    /\ Int16BE(resp[9], resp[10]) = errCode
    /\ SubSeq(resp, 11, Len(resp)) = << 2, 0, 18, 0, 0, 0, 4, 0, 0, 0, 0, 0, 0 >>
    /\ \A n \in 1..Len(resp) : resp[n] \in 0..255

\* A frame was built for a negative correlationId and a negative errorCode.
C8_Witness ==
  /\ pc = "written"
  /\ corrID = -2147483647 - 1
  /\ errCode = -256

\* C9: for a payload of at least ten bytes whose int16 L at offset 8 is
\* negative, or non-negative with at least L bytes behind it, the decoder
\* never turns to the flexible attempt and never fails; it ends with ok,
\* clientId empty (L < 0) or the L bytes at offset 10, and the cursor at
\* 10 + max(L, 0), no tagged field read, whatever the flexible reading of the
\* same bytes would have been.
C9_LegacyFirst ==
  LET L == Int16BE(b[9], b[10])
      M == IF L < 0 THEN 0 ELSE L
  IN (Len(b) >= 10 /\ (L < 0 \/ Len(b) - 10 >= L)) =>
       /\ pc \notin {"restore", "compact", "tags", "entry", "malformed", "panic"}
       /\ pc \in {"decide", "build", "written"} =>
            /\ ok
            /\ clientID = SubSeq(b, 11, 10 + M)
            /\ off = FromInt(10 + M)
            /\ save = FromInt(8)
            /\ cnt = Zero64 /\ i = 0
            /\ \E h \in {parseHeader(b)} :
                 h.ok /\ h.clientID = clientID /\ h.off = off

\* A payload that also reads as a null compact string and one tagged field,
\* ending two bytes further on: the legacy result stood.
C9_Witness ==
  /\ pc = "written"
  /\ SubSeq(b, 9, Len(b)) = << 0, 1, 0, 0 >>
  /\ clientID = << 0 >>
  /\ \E f \in {parseFlexible(b, apiKey, apiVer, corrID, FromInt(8))} :
       f.ok /\ f.off = FromInt(12) /\ f.off # off

\* C10, as stated: after every step of the decoder the offset lies in
\* 0 .. len(payload), and no step but the checkpoint restore leaves it below
\* its value before the step.
C10_ForwardOnlyInBounds ==
  [][ /\ InBuf(b', off')
      /\ pc # "restore" => ~SLess(off', off) ]_vars

\* C11, as stated: a pass of skipTagged's loop that goes on to the next entry
\* (or lets skipTagged return success) has read a tag and a size, found at
\* least size bytes left behind the size varint, size read as the unsigned
\* 64-bit value it is, and moved the cursor past exactly those bytes; a pass
\* that finds fewer bytes left fails.
C11_SkipsExactlySize ==
  [][ (pc = "entry" /\ pc' = "entry" /\ i' = i + 1) =>
        \E t \in {uvarint(b, off)} : \E s \in {uvarint(b, t.off)} :
          /\ t.err = "nil" /\ s.err = "nil"
          /\ InBuf(b, s.off)
          /\ ~ULess(FromInt(Len(b) - ToInt(s.off)), s.v)
          /\ off' = Add64(s.off, s.v) ]_vars

\* The legacy read of clientId fails on payload buf: fewer than two bytes
\* behind the correlation id, or a non-negative length above the bytes left.
LegacyFails(buf) ==
  /\ Len(buf) >= 8
  /\ \/ Len(buf) < 10
     \/ \E L \in {Int16BE(buf[9], buf[10])} : L >= 0 /\ L > Len(buf) - 10

\* C12: when the legacy read of clientId fails, the checkpoint is offset 8 and
\* the flexible attempt starts there, however far the legacy read went (to 10
\* when its length was read); the decoder then succeeds exactly when the
\* compact string and the tagged fields decode from offset 8, with their
\* clientId and end offset, and apiKey, apiVersion and correlationId are
\* those of bytes 0..7.
C12_FallbackFromCheckpoint ==
  /\ pc \in {"restore", "compact", "tags", "entry"} =>
       LegacyFails(b) /\ save = FromInt(8)
  /\ pc = "restore" => off = FromInt(IF Len(b) < 10 THEN 8 ELSE 10)
  /\ pc = "compact" => off = FromInt(8)
  /\ (LegacyFails(b) /\ pc \in {"decide", "build", "written", "malformed", "panic"}) =>
       \E f \in {parseFlexible(b, Int16BE(b[1], b[2]), Int16BE(b[3], b[4]),
                               Int32BE(b[5], b[6], b[7], b[8]), FromInt(8))} :
         /\ pc \in {"decide", "build", "written"} <=> f.ok
         /\ f.ok => /\ ok
                    /\ << apiKey, apiVer, corrID, clientID, off >>
                         = << f.apiKey, f.apiVer, f.corrID, f.clientID, f.off >>

\* A header in the flexible encoding was decoded after the legacy read had
\* taken its two length bytes: clientId "ab" and one tagged field.
C12_Witness ==
  /\ pc = "written"
  /\ LegacyFails(b) /\ Len(b) >= 10
  /\ save = FromInt(8)
  /\ clientID = << 97, 98 >>
  /\ off = FromInt(Len(b))
  /\ cnt = FromInt(1) /\ i = 1

FailureLines ==
  { "Read length error", "Negative frame size", "Frame too large",
    "Read payload error", "Malformed header; closing", "Write error" }

\* C14: a worker that has printed a failure (length read, frame length,
\* payload read, malformed header, write) has closed its connection, and a
\* closed connection stays closed: nothing more is taken from its stream,
\* nothing more is written to it, whole or in part, and nothing is retried.
C14_FailureIsTerminal ==
  [][ \A c \in Conns :
        /\ log'[c] \in FailureLines => hpc'[c] = "closed"
        /\ hpc[c] = "closed" =>
             /\ hpc'[c] = "closed"
             /\ rd'[c] = rd[c]
             /\ << out'[c], torn'[c] >> = << out[c], torn[c] >>
             /\ << reqs'[c], payload'[c], frameSize'[c], log'[c] >>
                  = << reqs[c], payload[c], frameSize[c], log[c] >> ]_vars

\* A write failed part-way with a frame still unread in the stream, and the
\* other connection's worker went on afterwards.
C14_Witness ==
  \E c \in Conns : \E d \in Conns \ {c} :
    /\ hpc[c] = "closed" /\ log[c] = "Write error"
    /\ torn[c] # << >>
    /\ rd[c] < Len(inb[c])
    /\ Len(out[d]) = 2

\* C15: the response to a request is fixed by its correlationId and the
\* decided error code alone.  It is the 23 bytes made of the length 19, the
\* request's four correlationId bytes, the error code and the fixed fields;
\* and it is byte for byte the response to the plain request that has the
\* same correlationId and the same decided error code (apiKey 18, version 5
\* or 0, null legacy clientId, nothing behind it), whatever this request's
\* apiKey, clientId, header encoding and trailing bytes are.
C15_ResponseDependsOnCorrAndCode ==
  pc = "written" =>
    /\ Len(resp) = 23
    /\ resp = << 0, 0, 0, 19 >> \o SubSeq(b, 5, 8) \o << 0, errCode >>
                \o << 2, 0, 18, 0, 0, 0, 4, 0, 0, 0, 0, 0, 0 >>
    /\ \E q \in {HeaderBytes(18, IF errCode = errUnsupportedVer THEN 5 ELSE 0, corrID)
                   \o << 255, 255 >>} :
         \E o \in {headerOutcome(q)} : o.kind = "respond" /\ o.resp = resp

\* A request for another apiKey, in the flexible encoding, with a clientId
\* and a tagged field, was answered.
C15_Witness ==
  /\ pc = "written"
  /\ apiKey = 17
  /\ LegacyFails(b)
  /\ clientID = << 97, 98 >>
  /\ corrID = -2
  /\ errCode = errNone

\* Where the tagged-field entries of payload buf start: behind the compact
\* string read from offset 8 and the count varint.
TagsStart(buf) ==
  The({ uvarint(buf, s.off).off : s \in {compactNullableString(buf, FromInt(8))} })

\* C16, as stated: while skipTagged loops, the passes it has made are at most
\* half the payload bytes behind the count varint, since every entry takes at
\* least a tag byte and a size byte.
C16_IterationsBoundedByBytes ==
  pc = "entry" => 2 * i <= Len(b) - ToInt(TagsStart(b))

\* C17: a payload of fewer than ten bytes is never answered.  Its decoding
\* stays before the tagged-field entries and ends as malformed, by the fixed
\* fields when it has fewer than eight bytes and by both clientId readings
\* otherwise; no response is built, and handleConn closes the connection
\* on it.  Ten bytes can be answered: a header with a null legacy clientId.
C17_ShortPayloadUnanswered ==
  /\ Len(b) < 10 =>
       /\ pc \in {"apiKey", "apiVer", "corrID", "legacy", "restore", "compact",
                  "tags", "malformed"}
       /\ ~ok
       /\ resp = << >>
       /\ Len(b) < 8 => pc \in {"apiKey", "apiVer", "corrID", "malformed"}
       /\ \E o \in {headerOutcome(b)} : o.kind = "malformed" /\ o.resp = << >>
  /\ \E o \in {headerOutcome(HeaderBytes(18, 4, 7) \o << 255, 255 >>)} :
       o.kind = "respond"

\* A payload of nine bytes failed at its furthest: the ninth byte read as a
\* null compact string, and no tagged-field count behind it.
C17_Witness ==
  /\ pc = "malformed"
  /\ Len(b) = 9
  /\ b[9] = 0
  /\ off = FromInt(9)
  /\ save = FromInt(8)

\* C18: with two or more bytes behind the correlation id, the flexible
\* attempt is made only when the byte at offset 8 is below 0x80.  So a header
\* decoded by the flexible attempt has a one-byte compact length N = the
\* byte at offset 8, its clientId is the N-1 bytes at offset 9 (none for
\* N = 0), at most 126 of them; and a header whose byte at offset 8 is 0x80
\* or above, with a byte behind it, is decoded by the legacy read as a null
\* clientId ending at offset 10, never as a compact string.
C18_FlexibleNeedsSmallFirstByte ==
  /\ (Len(b) >= 10 /\ pc \in {"restore", "compact", "tags", "entry"}) => b[9] < 128
  /\ (LegacyFails(b) /\ pc \in {"decide", "build", "written"}) =>
       /\ Len(b) >= 10
       /\ b[9] < 128
       /\ Len(clientID) <= 126
       /\ clientID = SubSeq(b, 10, 8 + b[9])
       /\ ~ULess(FromInt(i), cnt) /\ ~ULess(cnt, FromInt(i))
  /\ (Len(b) >= 10 /\ b[9] >= 128
        /\ pc \notin {"apiKey", "apiVer", "corrID", "legacy"}) =>
       /\ pc \in {"decide", "build", "written"}
       /\ ok
       /\ clientID = << >>
       /\ off = FromInt(10)
       /\ cnt = Zero64 /\ i = 0

\* A flexible header with the largest compact length the flexible attempt
\* can meet, 0x7F, was decoded: a clientId of 126 bytes.
C18_Witness ==
  /\ pc = "written"
  /\ LegacyFails(b)
  /\ b[9] = 127
  /\ Len(clientID) = 126
  /\ off = FromInt(Len(b))
====
